---- MODULE Spec2Model ----
(***************************************************************************)
(* Model of app_sentimento_rock.py: a Streamlit script that is re-executed *)
(* top to bottom on every user interaction.  One run loads the sentiment   *)
(* table through the st.cache_data wrapper, stops on an empty table, reads *)
(* the sidebar widgets, filters the table and renders metrics and tabs.    *)
(*                                                                         *)
(* Artists, languages and titles are ordered codes (1, 2, ...): the order  *)
(* of the codes is the lexicographic order of the names.  Polarities are   *)
(* integers in units of 0.001.  Fractions [num, den] stand for float       *)
(* values; 0/0 is NaN.                                                     *)
(***************************************************************************)
EXTENDS Integers, Sequences, FiniteSets, TLC

VARIABLES
    primario,       \* file analise_sentimento_outputs/letras_sentimento.csv
    alternativo,    \* file letras_sentimento.csv
    substituicoes,  \* how many times the primary file was replaced on disk
    cache,          \* the st.cache_data store of carregar_dados
    leituras,       \* log of the pd.read_csv calls made by the process
    politica,       \* tie behaviour of the build's default sort kind
    pc,             \* next block of the script to execute
    excecao,        \* unhandled exception that ended the run
    df,             \* line 47
    artista_sel,    \* line 59
    idioma_sel,     \* line 60
    min_pol,        \* line 62
    max_pol,        \* line 62
    df_filtrado,    \* lines 70-75
    metricas,       \* lines 82-86
    art_group,      \* lines 111-117
    top_pos,        \* line 150
    top_neg,        \* line 151
    chaves,         \* widget keys registered by st.button in this run
    renderizado     \* elements rendered in this run

vars == <<primario, alternativo, substituicoes, cache, leituras, politica,
          pc, excecao, df, artista_sel, idioma_sel, min_pol, max_pol,
          df_filtrado, metricas, art_group, top_pos, top_neg, chaves,
          renderizado>>

(* ------------------------------ bounds --------------------------------- *)
MaxLen == 2             \* length of the exhaustively enumerated tables
NGrande == 22           \* length of the generated large tables
MaxLeituras == 4        \* cap on the read log while loading keeps failing
MaxSubstituicoes == 1   \* cap on replacements of the primary file

(* ------------------------- small helpers ------------------------------- *)
Min(a, b) == IF a <= b THEN a ELSE b

Reverse(s) == [i \in 1..Len(s) |-> s[Len(s) + 1 - i]]

Frac(n, d) == [num |-> n, den |-> d]

NaN == Frac(0, 0)

IsNaN(f) == f.den = 0

\* a < b on floats; any comparison with NaN is false
LT(a, b) == ~IsNaN(a) /\ ~IsNaN(b) /\ a.num * b.den < b.num * a.den

EqF(a, b) == ~IsNaN(a) /\ ~IsNaN(b) /\ a.num * b.den = b.num * a.den

(* ------------------------------ data ----------------------------------- *)
Polaridades == -1..1

Registro(a, i, p, t) ==
    [artista |-> a, idioma_detectado |-> i, sent_polarity |-> p, titulo |-> t]

Registros ==
    { Registro(1, 1, 1, 1), Registro(1, 2, -1, 2), Registro(2, 1, 1, 1),
      Registro(2, 2, 0, 2), Registro(2, 1, -1, 3), Registro(1, 1, 0, 3) }

TabelasPequenas == UNION { [1..n -> Registros] : n \in 0..MaxLen }

\* a large table: every row its own title, the first and the last row by
\* the same artist and, for passo coprime with NGrande - 1, the other rows
\* by artists of their own; polarities repeat so that ties are frequent
TabelaGrande(passo) ==
    [i \in 1..NGrande |->
        Registro(((i * passo) % (NGrande - 1)) + 1, (i % 2) + 1,
                 (i % 3) - 1, i)]

TabelasGrandes == { TabelaGrande(1), TabelaGrande(5) }

Tabelas == TabelasPequenas \cup TabelasGrandes

Arquivo(e, t) == [estado |-> e, tabela |-> t]

Ausente == Arquivo("ausente", <<>>)

Ilegivel == Arquivo("ilegivel", <<>>)

\* contents the fallback file may have
ArquivosAlternativos ==
    { Ausente, Ilegivel,
      Arquivo("ok", <<Registro(2, 2, 0, 2), Registro(1, 1, 0, 2)>>) }

\* contents the primary file may be given while the process runs
ArquivosNovos == { Arquivo("ok", <<Registro(1, 2, -1, 2)>>) }

(* ------------------------- loading (lines 39-47) ----------------------- *)
\* pd.read_csv on one path: a table, FileNotFoundError or another error
read_csv(arq) ==
    CASE arq.estado = "ok"       -> [erro |-> "nenhum", df |-> arq.tabela]
      [] arq.estado = "ausente"  -> [erro |-> "FileNotFoundError", df |-> <<>>]
      [] arq.estado = "ilegivel" -> [erro |-> "ReadError", df |-> <<>>]

Leitura(caminho, r) == [caminho |-> caminho, erro |-> r.erro]

\* body of carregar_dados: the fallback path is tried only on
\* FileNotFoundError of the primary path; any other exception propagates
carregar_dados(prim, alt) ==
    LET r1 == read_csv(prim)
        r2 == read_csv(alt)
    IN  IF r1.erro = "FileNotFoundError"
        THEN [erro |-> r2.erro, df |-> r2.df,
              lidos |-> <<Leitura("primario", r1), Leitura("alternativo", r2)>>]
        ELSE [erro |-> r1.erro, df |-> r1.df,
              lidos |-> <<Leitura("primario", r1)>>]

CacheVazio == [cheio |-> FALSE, df |-> <<>>]

\* a wrapper that calls the function on every run and keeps the last value
st_cache_data_sem_cache(c, prim, alt) ==
    LET r == carregar_dados(prim, alt)
    IN  [erro |-> r.erro, df |-> r.df, lidos |-> r.lidos,
         cache |-> IF r.erro = "nenhum"
                   THEN [cheio |-> TRUE, df |-> r.df] ELSE c]

\* @st.cache_data: a hit returns a copy of the stored value without calling
\* the function; a miss calls it and stores the value it returns (nothing
\* is stored when it raises)
st_cache_data(c, prim, alt) ==
    LET r == carregar_dados(prim, alt)
    IN  IF c.cheio
        THEN [erro |-> "nenhum", df |-> c.df, lidos |-> <<>>, cache |-> c]
        ELSE [erro |-> r.erro, df |-> r.df, lidos |-> r.lidos,
              cache |-> IF r.erro = "nenhum"
                        THEN [cheio |-> TRUE, df |-> r.df] ELSE c]

(* ---------------------- pandas operations used ------------------------- *)
\* Series.unique(): the distinct values of a column
unique(t, col) == { t[i][col] : i \in 1..Len(t) }

\* sorted(list): ascending sequence of a set of codes
RECURSIVE sorted(_)
sorted(S) ==
    IF S = {} THEN <<>>
    ELSE LET m == CHOOSE x \in S : \A y \in S : x <= y
         IN  <<m>> \o sorted(S \ {m})

\* df[mask]: the rows whose mask is true, in their original order
RECURSIVE mascara(_, _)
mascara(t, m) ==
    IF t = <<>> THEN <<>>
    ELSE LET n == Len(t)
             resto == mascara(SubSeq(t, 1, n - 1), SubSeq(m, 1, n - 1))
         IN  IF m[n] THEN Append(resto, t[n]) ELSE resto

\* does the key being inserted go before key b of the sorted prefix?
\* A stable sort moves it only past strictly greater keys; the default
\* kind ("quicksort") is not stable, and the unstable build is modelled as
\* one that also moves it past equal keys.
VaiAntes(a, b, kind) ==
    IF kind = "estavel" THEN LT(a, b) ELSE LT(a, b) \/ EqF(a, b)

RECURSIVE Insere(_, _, _, _)
Insere(idx, i, v, kind) ==
    IF idx = <<>> THEN <<i>>
    ELSE LET n == Len(idx)
         IN  IF VaiAntes(v[i], v[idx[n]], kind)
             THEN Append(Insere(SubSeq(idx, 1, n - 1), i, v, kind), idx[n])
             ELSE Append(idx, i)

\* ndarray.argsort(kind): indices that put keys v in ascending order
RECURSIVE argsort_ate(_, _, _)
argsort_ate(v, n, kind) ==
    IF n = 0 THEN <<>>
    ELSE Insere(argsort_ate(v, n - 1, kind), n, v, kind)

argsort(v, kind) == argsort_ate(v, Len(v), kind)

\* pandas nargsort: a descending sort reverses the keys, sorts ascending
\* and reverses the resulting indexer
nargsort(v, ascending, kind) ==
    IF ascending THEN argsort(v, kind)
    ELSE LET n == Len(v)
             a == argsort(Reverse(v), kind)
             indexer == [k \in 1..n |-> n + 1 - a[k]]
         IN  Reverse(indexer)

\* sort_values(ascending=...): the rows of s reordered by their keys v
sort_values(s, v, ascending, kind) ==
    LET ix == nargsort(v, ascending, kind)
    IN  [k \in 1..Len(s) |-> s[ix[k]]]

\* head(k): the first k rows
head(s, k) == SubSeq(s, 1, Min(k, Len(s)))

RECURSIVE soma(_)
soma(v) == IF v = <<>> THEN 0 ELSE soma(SubSeq(v, 1, Len(v) - 1)) + v[Len(v)]

coluna(t, col) == [i \in 1..Len(t) |-> t[i][col]]

\* the float column sent_polarity of a table
polaridade(t) == [i \in 1..Len(t) |-> Frac(t[i].sent_polarity, 1)]

\* a mean that reports 0 for an empty column
mean_zero(v) == IF v = <<>> THEN Frac(0, 1) ELSE Frac(soma(v), Len(v))

\* Series.mean(): sum / count; NaN for an empty column
mean(v) == Frac(soma(v), Len(v))

RECURSIVE menor(_)
menor(v) ==
    IF Len(v) = 1 THEN v[1]
    ELSE LET m == menor(SubSeq(v, 1, Len(v) - 1))
         IN  IF v[Len(v)] < m THEN v[Len(v)] ELSE m

RECURSIVE maior(_)
maior(v) ==
    IF Len(v) = 1 THEN v[1]
    ELSE LET m == maior(SubSeq(v, 1, Len(v) - 1))
         IN  IF v[Len(v)] > m THEN v[Len(v)] ELSE m

\* Series.max(): NaN for an empty column
max(v) == IF v = <<>> THEN NaN ELSE Frac(maior(v), 1)

\* round(x, 3): nearest multiple of 0.001, halves to even; NaN stays NaN
round3(f) ==
    IF IsNaN(f) THEN NaN
    ELSE LET q == f.num \div f.den
             r == f.num - q * f.den
         IN  IF 2 * r < f.den THEN Frac(q, 1)
             ELSE IF 2 * r > f.den THEN Frac(q + 1, 1)
             ELSE IF q % 2 = 0 THEN Frac(q, 1) ELSE Frac(q + 1, 1)

Grupo(a, m) == [artista |-> a, sent_polarity |-> m]

\* grouping that keeps the groups in order of first appearance (sort=False)
RECURSIVE groupby_mean_sem_ordem(_)
groupby_mean_sem_ordem(t) ==
    IF t = <<>> THEN <<>>
    ELSE LET a == t[1].artista
             g == mascara(t, [i \in 1..Len(t) |-> t[i].artista = a])
             r == mascara(t, [i \in 1..Len(t) |-> t[i].artista # a])
         IN  <<Grupo(a, mean(coluna(g, "sent_polarity")))>>
                 \o groupby_mean_sem_ordem(r)

\* groupby("artista")["sent_polarity"].mean(): one row per artist, the
\* group keys in ascending order (sort=True is the default)
groupby_mean(t) ==
    LET chavesOrd == sorted(unique(t, "artista"))
    IN  [k \in 1..Len(chavesOrd) |->
            LET g == mascara(t, [i \in 1..Len(t) |->
                                    t[i].artista = chavesOrd[k]])
            IN  Grupo(chavesOrd[k], mean(coluna(g, "sent_polarity")))]

(* ------------------- the pipeline of one run --------------------------- *)
TOP_ARTISTAS == 20

TOP_MUSICAS == 10

\* filtering written on df itself: the later blocks see the reduced table
aplica_filtros_em_df(d, a_sel, i_sel, lo, hi) ==
    LET f1 == IF a_sel # {}
              THEN mascara(d, [i \in 1..Len(d) |-> d[i].artista \in a_sel])
              ELSE d
        f2 == IF i_sel # {}
              THEN mascara(f1, [i \in 1..Len(f1) |->
                                   f1[i].idioma_detectado \in i_sel])
              ELSE f1
        f3 == mascara(f2, [i \in 1..Len(f2) |->
                              f2[i].sent_polarity >= lo
                              /\ f2[i].sent_polarity <= hi])
    IN  [df |-> f3, df_filtrado |-> f3]

\* a polarity mask with an exclusive upper end
aplica_filtros_exclusivo(d, a_sel, i_sel, lo, hi) ==
    LET f1 == IF a_sel # {}
              THEN mascara(d, [i \in 1..Len(d) |-> d[i].artista \in a_sel])
              ELSE d
        f2 == IF i_sel # {}
              THEN mascara(f1, [i \in 1..Len(f1) |->
                                   f1[i].idioma_detectado \in i_sel])
              ELSE f1
        f3 == mascara(f2, [i \in 1..Len(f2) |->
                              f2[i].sent_polarity >= lo
                              /\ f2[i].sent_polarity < hi])
    IN  [df |-> d, df_filtrado |-> f3]

\* lines 70-75: the bindings of df and df_filtrado after the three masks;
\* df.copy() and boolean indexing build new frames, df is left as loaded
aplica_filtros(d, a_sel, i_sel, lo, hi) ==
    LET f0 == d
        f1 == IF a_sel # {}
              THEN mascara(f0, [i \in 1..Len(f0) |-> f0[i].artista \in a_sel])
              ELSE f0
        f2 == IF i_sel # {}
              THEN mascara(f1, [i \in 1..Len(f1) |->
                                   f1[i].idioma_detectado \in i_sel])
              ELSE f1
        f3 == mascara(f2, [i \in 1..Len(f2) |->
                              f2[i].sent_polarity >= lo
                              /\ f2[i].sent_polarity <= hi])
    IN  [df |-> d, df_filtrado |-> f3]

\* a summary whose mean is 0 on an empty table
resumo_mean_zero(t) ==
    [count |-> Len(t),
     media |-> round3(mean_zero(coluna(t, "sent_polarity"))),
     maior |-> round3(max(coluna(t, "sent_polarity")))]

\* lines 82-86: the three metric cards
resumo(t) ==
    [count |-> Len(t),
     media |-> round3(mean(coluna(t, "sent_polarity"))),
     maior |-> round3(max(coluna(t, "sent_polarity")))]

\* a ranking sorted in ascending order of the mean
top_artistas_asc(t, kind) ==
    LET g == groupby_mean(t)
    IN  head(sort_values(g, coluna(g, "sent_polarity"), TRUE, kind),
             TOP_ARTISTAS)

\* a ranking over groups taken in order of first appearance
top_artistas_sem_ordem(t, kind) ==
    LET g == groupby_mean_sem_ordem(t)
    IN  head(sort_values(g, coluna(g, "sent_polarity"), FALSE, kind),
             TOP_ARTISTAS)

\* lines 111-117: groupby, mean, sort_values(ascending=False), head(20)
top_artistas(t, kind) ==
    LET g == groupby_mean(t)
    IN  head(sort_values(g, coluna(g, "sent_polarity"), FALSE, kind),
             TOP_ARTISTAS)

\* a list one row short
top_musicas_curto(t, ascending, kind) ==
    head(sort_values(t, polaridade(t), ascending, kind), TOP_MUSICAS - 1)

\* lines 150-151: sort_values("sent_polarity", ascending=...).head(10)
top_musicas(t, ascending, kind) ==
    head(sort_values(t, polaridade(t), ascending, kind), TOP_MUSICAS)

Chave(lista, r) == [lista |-> lista, titulo |-> r.titulo]

\* lines 155-165: the keys f"pos_{titulo}" then f"neg_{titulo}" in the order
\* in which st.button is called
chaves_botoes(pos, neg) ==
    [i \in 1..Len(pos) |-> Chave("pos", pos[i])]
        \o [i \in 1..Len(neg) |-> Chave("neg", neg[i])]

\* positions at which st.button is called with a key already registered
Repetidas(ks) == { j \in 1..Len(ks) : \E i \in 1..(j - 1) : ks[i] = ks[j] }

PrimeiraRepetida(ks) == CHOOSE j \in Repetidas(ks) : \A i \in Repetidas(ks) : j <= i

(* ----------------------------- state machine --------------------------- *)
\* artists the user picks from in the multiselect
ArtistasSelecionaveis == 1..2

\* the button (in creation order) whose click started the run; 0 for none
BotoesClicaveis == 0..1

SemMetricas == [count |-> 0, media |-> Frac(0, 1), maior |-> Frac(0, 1)]

Init ==
    /\ primario \in {Ausente, Ilegivel} \cup { Arquivo("ok", t) : t \in Tabelas }
    /\ alternativo \in ArquivosAlternativos
    /\ substituicoes = 0
    /\ cache = CacheVazio
    /\ leituras = <<>>
    /\ politica \in {"estavel", "instavel"}
    /\ pc = "carregamento"
    /\ excecao = "nenhuma"
    /\ df = <<>>
    /\ artista_sel = {}
    /\ idioma_sel = {}
    /\ min_pol = 0
    /\ max_pol = 0
    /\ df_filtrado = <<>>
    /\ metricas = SemMetricas
    /\ art_group = <<>>
    /\ top_pos = <<>>
    /\ top_neg = <<>>
    /\ chaves = <<>>
    /\ renderizado = {}

\* lines 12-47: page header, then df = carregar_dados() through the cache
Carregamento ==
    /\ pc = "carregamento"
    /\ LET r == st_cache_data(cache, primario, alternativo)
       IN  /\ Len(leituras) + Len(r.lidos) <= MaxLeituras
           /\ cache' = r.cache
           /\ leituras' = leituras \o r.lidos
           /\ renderizado' = {"titulo"}
           /\ IF r.erro = "nenhum"
              THEN /\ df' = r.df
                   /\ pc' = "verificacao"
                   /\ excecao' = excecao
              ELSE /\ df' = df
                   /\ pc' = "excecao"
                   /\ excecao' = r.erro
    /\ UNCHANGED <<primario, alternativo, substituicoes, politica,
                   artista_sel, idioma_sel, min_pol, max_pol, df_filtrado,
                   metricas, art_group, top_pos, top_neg, chaves>>

\* an emptiness check that reports the error without st.stop()
VerificaVazio_sem_stop ==
    /\ pc = "verificacao"
    /\ renderizado' = IF df = <<>> THEN renderizado \cup {"erro"}
                      ELSE renderizado
    /\ pc' = "filtros_laterais"
    /\ UNCHANGED <<primario, alternativo, substituicoes, cache, leituras,
                   politica, excecao, df, artista_sel, idioma_sel, min_pol,
                   max_pol, df_filtrado, metricas, art_group, top_pos,
                   top_neg, chaves>>

\* lines 49-51: if df.empty: st.error(...); st.stop()
VerificaVazio ==
    /\ pc = "verificacao"
    /\ IF df = <<>>
       THEN /\ renderizado' = renderizado \cup {"erro"}
            /\ pc' = "parado"
       ELSE /\ renderizado' = renderizado
            /\ pc' = "filtros_laterais"
    /\ UNCHANGED <<primario, alternativo, substituicoes, cache, leituras,
                   politica, excecao, df, artista_sel, idioma_sel, min_pol,
                   max_pol, df_filtrado, metricas, art_group, top_pos,
                   top_neg, chaves>>

\* lines 54-67: the two multiselects (options: the values present in df)
\* and the range slider (between the least and the greatest polarity of df)
FiltrosLaterais ==
    /\ pc = "filtros_laterais"
    /\ df # <<>>
    /\ LET artistas == sorted(unique(df, "artista"))
           idiomas == sorted(unique(df, "idioma_detectado"))
           lo == menor(coluna(df, "sent_polarity"))
           hi == maior(coluna(df, "sent_polarity"))
       IN  /\ artista_sel' \in SUBSET ({ artistas[i] : i \in 1..Len(artistas) }
                                         \cap ArtistasSelecionaveis)
           /\ idioma_sel' \in SUBSET { idiomas[i] : i \in 1..Len(idiomas) }
           /\ min_pol' \in lo..hi
           /\ max_pol' \in lo..hi
           /\ min_pol' <= max_pol'
    /\ renderizado' = renderizado \cup {"filtros"}
    /\ pc' = "aplica_filtros"
    /\ UNCHANGED <<primario, alternativo, substituicoes, cache, leituras,
                   politica, excecao, df, df_filtrado, metricas, art_group,
                   top_pos, top_neg, chaves>>

\* lines 69-77: the three masks and the count line
AplicaFiltros ==
    /\ pc = "aplica_filtros"
    /\ LET r == aplica_filtros(df, artista_sel, idioma_sel, min_pol, max_pol)
       IN  /\ df' = r.df
           /\ df_filtrado' = r.df_filtrado
    /\ renderizado' = renderizado \cup {"contagem"}
    /\ pc' = "metricas"
    /\ UNCHANGED <<primario, alternativo, substituicoes, cache, leituras,
                   politica, excecao, artista_sel, idioma_sel, min_pol,
                   max_pol, metricas, art_group, top_pos, top_neg, chaves>>

\* lines 79-88: the three metric cards
Metricas ==
    /\ pc = "metricas"
    /\ metricas' = resumo(df_filtrado)
    /\ renderizado' = renderizado \cup {"metricas"}
    /\ pc' = "tab1"
    /\ UNCHANGED <<primario, alternativo, substituicoes, cache, leituras,
                   politica, excecao, df, artista_sel, idioma_sel, min_pol,
                   max_pol, df_filtrado, art_group, top_pos, top_neg, chaves>>

\* lines 90-106: the tab bar and the polarity histogram
Tab1 ==
    /\ pc = "tab1"
    /\ renderizado' = renderizado \cup {"guias", "histograma"}
    /\ pc' = "tab2"
    /\ UNCHANGED <<primario, alternativo, substituicoes, cache, leituras,
                   politica, excecao, df, artista_sel, idioma_sel, min_pol,
                   max_pol, df_filtrado, metricas, art_group, top_pos,
                   top_neg, chaves>>

\* lines 108-128: the per-artist ranking and its bar chart
Tab2 ==
    /\ pc = "tab2"
    /\ art_group' = top_artistas(df_filtrado, politica)
    /\ renderizado' = renderizado \cup {"barras"}
    /\ pc' = "tab3"
    /\ UNCHANGED <<primario, alternativo, substituicoes, cache, leituras,
                   politica, excecao, df, artista_sel, idioma_sel, min_pol,
                   max_pol, df_filtrado, metricas, top_pos, top_neg, chaves>>

\* lines 130-142: the scatter of lyric length against polarity
Tab3 ==
    /\ pc = "tab3"
    /\ renderizado' = renderizado \cup {"dispersao"}
    /\ pc' = "tab4"
    /\ UNCHANGED <<primario, alternativo, substituicoes, cache, leituras,
                   politica, excecao, df, artista_sel, idioma_sel, min_pol,
                   max_pol, df_filtrado, metricas, art_group, top_pos,
                   top_neg, chaves>>

\* lines 144-165: the two top lists, one entry and one button per row;
\* st.button raises DuplicateWidgetID on a key already used in the run
Tab4 ==
    /\ pc = "tab4"
    /\ LET pos == top_musicas(df_filtrado, FALSE, politica)
           neg == top_musicas(df_filtrado, TRUE, politica)
           ks == chaves_botoes(pos, neg)
       IN  /\ top_pos' = pos
           /\ top_neg' = neg
           /\ IF Repetidas(ks) # {}
              THEN LET d == PrimeiraRepetida(ks)
                   IN  /\ chaves' = SubSeq(ks, 1, d)
                       /\ renderizado' = renderizado \cup {"lista_pos"}
                              \cup (IF d > Len(pos) THEN {"lista_neg"} ELSE {})
                       /\ pc' = "excecao"
                       /\ excecao' = "DuplicateWidgetID"
              ELSE /\ chaves' = ks
                   /\ \E clique \in BotoesClicaveis :
                         renderizado' = renderizado \cup {"lista_pos", "lista_neg"}
                             \cup (IF clique \in 1..Len(ks)
                                   THEN {"letra"} ELSE {})
                   /\ pc' = "tab5"
                   /\ excecao' = excecao
    /\ UNCHANGED <<primario, alternativo, substituicoes, cache, leituras,
                   politica, df, artista_sel, idioma_sel, min_pol, max_pol,
                   df_filtrado, metricas, art_group>>

\* lines 167-176: the word-cloud tab header and the definition of
\* gerar_wordcloud
Tab5 ==
    /\ pc = "tab5"
    /\ renderizado' = renderizado \cup {"wordclouds"}
    /\ pc' = "fim"
    /\ UNCHANGED <<primario, alternativo, substituicoes, cache, leituras,
                   politica, excecao, df, artista_sel, idioma_sel, min_pol,
                   max_pol, df_filtrado, metricas, art_group, top_pos,
                   top_neg, chaves>>

\* a user interaction re-executes the script from the top in the same
\* process: the script's names are unbound again, the cache is kept
NovaExecucao ==
    /\ pc \in {"fim", "parado", "excecao"}
    /\ pc' = "carregamento"
    /\ excecao' = "nenhuma"
    /\ df' = <<>>
    /\ artista_sel' = {}
    /\ idioma_sel' = {}
    /\ min_pol' = 0
    /\ max_pol' = 0
    /\ df_filtrado' = <<>>
    /\ metricas' = SemMetricas
    /\ art_group' = <<>>
    /\ top_pos' = <<>>
    /\ top_neg' = <<>>
    /\ chaves' = <<>>
    /\ renderizado' = {}
    /\ UNCHANGED <<primario, alternativo, substituicoes, cache, leituras,
                   politica>>

\* the environment writes a new primary file between two runs
SubstituiArquivo ==
    /\ pc = "carregamento"
    /\ substituicoes < MaxSubstituicoes
    /\ primario' \in ArquivosNovos \ {primario}
    /\ substituicoes' = substituicoes + 1
    /\ UNCHANGED <<alternativo, cache, leituras, politica, pc, excecao, df,
                   artista_sel, idioma_sel, min_pol, max_pol, df_filtrado,
                   metricas, art_group, top_pos, top_neg, chaves, renderizado>>

Next ==
    \/ Carregamento
    \/ VerificaVazio
    \/ FiltrosLaterais
    \/ AplicaFiltros
    \/ Metricas
    \/ Tab1
    \/ Tab2
    \/ Tab3
    \/ Tab4
    \/ Tab5
    \/ NovaExecucao
    \/ SubstituiArquivo

Spec == Init /\ [][Next]_vars

(* ------------------------------ properties ----------------------------- *)
\* number of blocks of the script the current run has completed:
\* 1 load, 2 emptiness check, 3 sidebar, 4 filters, 5 metrics, 6 tab 1,
\* 7 tab 2, 8 tab 3, 9 tab 4 (the top lists), 10 tab 5
Concluidos ==
    CASE pc = "carregamento"   -> 0
      [] pc = "verificacao"    -> 1
      [] pc = "parado"         -> 2
      [] pc = "filtros_laterais" -> 2
      [] pc = "aplica_filtros" -> 3
      [] pc = "metricas"       -> 4
      [] pc = "tab1"           -> 5
      [] pc = "tab2"           -> 6
      [] pc = "tab3"           -> 7
      [] pc = "tab4"           -> 8
      [] pc = "tab5"           -> 9
      [] pc = "fim"            -> 10
      [] pc = "excecao"        -> IF excecao = "DuplicateWidgetID" THEN 9 ELSE 0

Sobrevive(r) ==
    /\ artista_sel = {} \/ r.artista \in artista_sel
    /\ idioma_sel = {} \/ r.idioma_detectado \in idioma_sel
    /\ min_pol <= r.sent_polarity
    /\ r.sent_polarity <= max_pol

\* C1: once the filters are applied, the filtered table is exactly the
\* subsequence, in original order, of the records of the loaded table that
\* satisfy the artist, the language and the closed polarity-interval
\* predicates
C1_FiltroExato ==
    Concluidos >= 4 => df_filtrado = SelectSeq(cache.df, Sobrevive)

C1_Witness ==
    /\ Concluidos >= 4
    /\ artista_sel # {}
    /\ idioma_sel # {}
    /\ Len(df_filtrado) = 1
    /\ Len(cache.df) = 2
    /\ df_filtrado[1].sent_polarity = max_pol
    /\ min_pol = max_pol

\* the input file is unavailable to the run that tried to load it
EntradaIndisponivel ==
    /\ pc # "carregamento"
    /\ ~cache.cheio
    /\ \/ primario.estado = "ilegivel"
       \/ primario.estado = "ausente" /\ alternativo.estado # "ok"

\* C2: a run whose input file is missing at both paths or unreadable ends
\* stopped behind the blocking 'no data' message, without an unhandled
\* exception and with nothing else rendered
C2_SemDadosSemExcecao ==
    EntradaIndisponivel =>
        /\ pc = "parado"
        /\ excecao = "nenhuma"
        /\ "erro" \in renderizado
        /\ renderizado \subseteq {"titulo", "erro"}

\* C3: a run whose loaded table is empty shows the error message and stops
\* before the sidebar, the metrics, the tabs, the charts and the top lists
C3_TabelaVaziaPara ==
    (Concluidos >= 1 /\ df = <<>>) =>
        /\ pc \in {"verificacao", "parado"}
        /\ renderizado \subseteq {"titulo", "erro"}
        /\ pc = "parado" => "erro" \in renderizado

C3_Witness ==
    /\ pc = "parado"
    /\ cache.cheio
    /\ cache.df = <<>>
    /\ "erro" \in renderizado

\* C4: the loaded table is never changed: within a run every block leaves
\* df as it was loaded, equal to the cached table, and the cached table
\* itself never changes
C4_TabelaImutavel ==
    [][ /\ (Concluidos >= 1 /\ pc' # "carregamento") =>
               (df' = df /\ df' = cache'.df)
        /\ cache.cheio => cache'.df = cache.df ]_vars

C4_Witness ==
    /\ pc = "fim"
    /\ df = cache.df
    /\ Len(df_filtrado) = 1
    /\ Len(df) = 2
    /\ art_group # <<>>
    /\ top_pos # <<>>

\* C5: a non-empty table that is empty after filtering is not an error:
\* the count is 0, mean and maximum are NaN, the ranking and both top lists
\* are empty, no button is created and the run goes on to its end
C5_FiltradoVazio ==
    (Concluidos >= 4 /\ cache.df # <<>> /\ df_filtrado = <<>>) =>
        /\ pc \notin {"excecao", "parado"}
        /\ excecao = "nenhuma"
        /\ "erro" \notin renderizado
        /\ Concluidos >= 5 =>
               /\ metricas.count = 0
               /\ metricas.count = Len(df_filtrado)
               /\ IsNaN(metricas.media)
               /\ IsNaN(metricas.maior)
        /\ Concluidos >= 7 => art_group = <<>>
        /\ Concluidos >= 9 =>
               top_pos = <<>> /\ top_neg = <<>> /\ chaves = <<>>

C5_Witness ==
    /\ pc = "fim"
    /\ cache.df # <<>>
    /\ df_filtrado = <<>>
    /\ metricas.count = 0

\* rows of the filtered table that belong to artist a
LinhasDe(a) == { i \in 1..Len(df_filtrado) : df_filtrado[i].artista = a }

RECURSIVE SomaLinhas(_)
SomaLinhas(S) ==
    IF S = {} THEN 0
    ELSE LET i == CHOOSE x \in S : TRUE
         IN  df_filtrado[i].sent_polarity + SomaLinhas(S \ {i})

MediaDe(a) == Frac(SomaLinhas(LinhasDe(a)), Cardinality(LinhasDe(a)))

ArtistasFiltrados == { df_filtrado[i].artista : i \in 1..Len(df_filtrado) }

ArtistasListados == { art_group[i].artista : i \in 1..Len(art_group) }

\* C6: the per-artist ranking has min(20, number of distinct artists)
\* entries, each an artist of the filtered table with the arithmetic mean
\* of that artist's polarities, no artist twice, in non-increasing order of
\* mean, and no omitted artist has a mean greater than a listed one
C6_RankingArtistas ==
    Concluidos >= 7 =>
        /\ Len(art_group) = Min(TOP_ARTISTAS, Cardinality(ArtistasFiltrados))
        /\ \A i \in 1..Len(art_group) :
              /\ art_group[i].artista \in ArtistasFiltrados
              /\ EqF(art_group[i].sent_polarity, MediaDe(art_group[i].artista))
        /\ \A i, j \in 1..Len(art_group) :
              i < j => /\ art_group[i].artista # art_group[j].artista
                       /\ ~LT(art_group[i].sent_polarity,
                              art_group[j].sent_polarity)
        /\ \A a \in ArtistasFiltrados \ ArtistasListados :
              \A i \in 1..Len(art_group) :
                  ~LT(art_group[i].sent_polarity, MediaDe(a))

C6_Witness ==
    /\ Concluidos >= 7
    /\ Cardinality(ArtistasFiltrados) > TOP_ARTISTAS
    /\ Len(art_group) = TOP_ARTISTAS
    /\ \E a \in ArtistasListados : Cardinality(LinhasDe(a)) > 1
    /\ \E i, j \in 1..Len(art_group) :
          LT(art_group[j].sent_polarity, art_group[i].sent_polarity)

PrimeiraOcorrencia(a) ==
    CHOOSE i \in LinhasDe(a) : \A j \in LinhasDe(a) : i <= j

Empatados(i, j) ==
    /\ i < j
    /\ EqF(art_group[i].sent_polarity, art_group[j].sent_polarity)

\* C7 as stated: artists of equal mean appear in the ranking in the order
\* of their first occurrence in the filtered table
C7_EmpatePorPrimeiraOcorrencia ==
    Concluidos >= 7 =>
        \A i, j \in 1..Len(art_group) :
            Empatados(i, j) =>
                PrimeiraOcorrencia(art_group[i].artista)
                    < PrimeiraOcorrencia(art_group[j].artista)

\* C7 as amended: the groups reach the sort in ascending artist order, so
\* under a stable sort artists of equal mean appear in ascending artist
\* order, whatever their order of first occurrence
C7_EmpatePorNome ==
    (Concluidos >= 7 /\ politica = "estavel") =>
        \A i, j \in 1..Len(art_group) :
            Empatados(i, j) => art_group[i].artista < art_group[j].artista

C7_Witness ==
    /\ Concluidos >= 7
    /\ politica = "estavel"
    /\ \E i, j \in 1..Len(art_group) :
          /\ Empatados(i, j)
          /\ PrimeiraOcorrencia(art_group[j].artista)
                 < PrimeiraOcorrencia(art_group[i].artista)

\* position of row i of the filtered table in the stable order by polarity
PostoDesc(i) ==
    1 + Cardinality({ j \in 1..Len(df_filtrado) :
                        \/ df_filtrado[j].sent_polarity > df_filtrado[i].sent_polarity
                        \/ /\ df_filtrado[j].sent_polarity = df_filtrado[i].sent_polarity
                           /\ j < i })

PostoAsc(i) ==
    1 + Cardinality({ j \in 1..Len(df_filtrado) :
                        \/ df_filtrado[j].sent_polarity < df_filtrado[i].sent_polarity
                        \/ /\ df_filtrado[j].sent_polarity = df_filtrado[i].sent_polarity
                           /\ j < i })

EstavelDesc ==
    [k \in 1..Len(df_filtrado) |->
        df_filtrado[CHOOSE i \in 1..Len(df_filtrado) : PostoDesc(i) = k]]

EstavelAsc ==
    [k \in 1..Len(df_filtrado) |->
        df_filtrado[CHOOSE i \in 1..Len(df_filtrado) : PostoAsc(i) = k]]

TamanhoTop == Min(TOP_MUSICAS, Len(df_filtrado))

\* C8 as stated: the top lists are the first min(10, n) rows of the
\* descending and of the ascending order by polarity, rows of equal
\* polarity keeping their relative order in the filtered table
C8_TopEstavel ==
    Concluidos >= 9 =>
        /\ top_pos = SubSeq(EstavelDesc, 1, TamanhoTop)
        /\ top_neg = SubSeq(EstavelAsc, 1, TamanhoTop)

Ocorrencias(s, r) == Cardinality({ i \in 1..Len(s) : s[i] = r })

\* C8 as amended: the top lists have min(10, n) rows taken from the
\* filtered table, their polarities are the min(10, n) highest in
\* descending order and the min(10, n) lowest in ascending order; rows of
\* equal polarity may come in any relative order
C8_TopPorPolaridade ==
    Concluidos >= 9 =>
        /\ Len(top_pos) = TamanhoTop
        /\ Len(top_neg) = TamanhoTop
        /\ \A k \in 1..TamanhoTop :
              /\ top_pos[k].sent_polarity = EstavelDesc[k].sent_polarity
              /\ top_neg[k].sent_polarity = EstavelAsc[k].sent_polarity
              /\ Ocorrencias(top_pos, top_pos[k])
                     <= Ocorrencias(df_filtrado, top_pos[k])
              /\ Ocorrencias(top_neg, top_neg[k])
                     <= Ocorrencias(df_filtrado, top_neg[k])

C8_Witness ==
    /\ Concluidos >= 9
    /\ politica = "instavel"
    /\ Len(df_filtrado) > TOP_MUSICAS
    /\ Len(top_pos) = TOP_MUSICAS
    /\ top_pos # SubSeq(EstavelDesc, 1, TamanhoTop)
    /\ top_pos[1].sent_polarity > top_pos[TOP_MUSICAS].sent_polarity

\* C9: the buttons created within one run have pairwise distinct keys and
\* the leaderboard is rendered without an exception, also when records
\* share a title
C9_ChavesDistintas ==
    /\ \A i, j \in 1..Len(chaves) : i # j => chaves[i] # chaves[j]
    /\ excecao # "DuplicateWidgetID"

\* C10: once a load has succeeded the process reads no file again and the
\* cached table stays the same in every later run; the fallback path is
\* read only right after the primary path was not found, and at most one
\* read ever succeeds
C10_LeituraUnica ==
    [][ /\ cache.cheio => (leituras' = leituras /\ cache' = cache)
        /\ \A i \in 1..Len(leituras') :
              leituras'[i].caminho = "alternativo" =>
                  /\ i > 1
                  /\ leituras'[i - 1] = [caminho |-> "primario",
                                         erro |-> "FileNotFoundError"]
        /\ Cardinality({ i \in 1..Len(leituras') :
                            leituras'[i].erro = "nenhum" }) <= 1
        /\ cache'.cheio =>
              (leituras' # <<>> /\ leituras'[Len(leituras')].erro = "nenhum")
      ]_vars

C10_Witness ==
    /\ pc = "fim"
    /\ cache.cheio
    /\ substituicoes > 0
    /\ primario.estado = "ok"
    /\ primario.tabela # cache.df
    /\ Len(leituras) = 2
    /\ leituras[2].caminho = "alternativo"

====
